---- MODULE Spec2Model ----
(***************************************************************************)
(* Model of scripts/scriptutils/part_retrieval.py: the package inventory,  *)
(* the accession/URI codec, the source router and its retrievers, the      *)
(* reconciler (import_parts) and the collator (collate_package).           *)
(*                                                                         *)
(* A string is a sequence of tokens; concatenating the tokens gives the    *)
(* string.  The tokens are cut so that every prefix the code tests with    *)
(* str.startswith ends on a token boundary, and every character the code   *)
(* looks at on its own ('/', '_', '.', '-', a leading digit) is a token of *)
(* its own.                                                                *)
(***************************************************************************)
EXTENDS Integers, Sequences, FiniteSets, TLC

VARIABLES inventory, history, codec, router, reconciler, importFile, collator

vars == <<inventory, history, codec, router, reconciler, importFile, collator>>

\* The value of a state component that the specification at hand does not use.
Idle == [pc |-> "idle"]

\* Python's None.
None == "None"

(***************************************************************************)
(* Strings as token sequences                                              *)
(***************************************************************************)

\* str.startswith
StartsWith(s, prefix) ==
    /\ Len(prefix) <= Len(s)
    /\ SubSeq(s, 1, Len(prefix)) = prefix

\* str.removeprefix
RemovePrefix(s, prefix) ==
    IF StartsWith(s, prefix) THEN SubSeq(s, Len(prefix) + 1, Len(s)) ELSE s

iGEM_SOURCE_PREFIX == <<"http://parts.igem.org", "/">>

NCBI_PREFIX == <<"https://www.ncbi.nlm.nih.gov/nuccore", "/">>

SBH_PREFIX == <<"https://synbiohub">>

SBH_IGEM_PREFIX == <<"https://synbiohub", ".org/public/igem", "/">>

\* The one key of prefix_remappings: 'https://synbiohub.org/public/igem/BBa_'.
SBH_BBA_PREFIX == <<"https://synbiohub", ".org/public/igem", "/", "BBa", "_">>

\* A package-local namespace (package_stem), matching no retrieval prefix.
LOCAL_PREFIX == <<"https://example.org/pkg", "/">>

remap_prefix(uri) ==
    IF StartsWith(uri, SBH_BBA_PREFIX)
    THEN iGEM_SOURCE_PREFIX \o RemovePrefix(uri, SBH_BBA_PREFIX)
    ELSE uri

(***************************************************************************)
(* Identity/alias codec                                                    *)
(***************************************************************************)

DIGITS == {"0", "1", "2", "3", "4", "5", "6", "7", "8", "9"}

\* sanitize_character of string_to_display_id, on the characters of the
\* model: ' ', '-' and '.' become '_'; letters, digits and '_' are kept.
sanitize_character(c) == IF c \in {" ", "-", "."} THEN "_" ELSE c

\* sbol_utilities' string_to_display_id, for a non-empty name without
\* surrounding blanks: sanitize every character, then prepend '_' to an
\* initial digit.
string_to_display_id(name) ==
    LET display_id == [i \in 1..Len(name) |-> sanitize_character(name[i])]
    IN  IF display_id[1] \in DIGITS THEN <<"_">> \o display_id ELSE display_id

\* str.replace(old, new) for one-character old and new.
Replace(s, old, new) == [i \in 1..Len(s) |-> IF s[i] = old THEN new ELSE s[i]]

\* str.endswith('/')
EndsWithSlash(s) == Len(s) > 0 /\ s[Len(s)] = "/"

sbol_uri_to_accession(uri, prefix) == Replace(RemovePrefix(uri, prefix), "_", ".")

accession_to_sbol_uri(accession, prefix) ==
    (IF EndsWithSlash(prefix) THEN prefix ELSE prefix \o <<"/">>)
        \o string_to_display_id(accession)

\* Bound of the codec specification: the longest accession tried.
MaxAccessionLen == 2

ACCESSION_CHARS == {"A", "1", ".", "_", "-"}

Accessions == UNION {[1..n -> ACCESSION_CHARS] : n \in 1..MaxAccessionLen}

\* Prefixes with and without the trailing separator.
CodecPrefixes ==
    {NCBI_PREFIX, iGEM_SOURCE_PREFIX, <<"https://www.ncbi.nlm.nih.gov/nuccore">>}

InitCodec ==
    /\ codec \in [pc : {"accession"}, accession : Accessions, prefix : CodecPrefixes,
                  uri : {None}, back : {None}]
    /\ inventory = Idle /\ history = Idle /\ router = Idle /\ reconciler = Idle
    /\ importFile = Idle /\ collator = Idle

AccessionToUri ==
    /\ codec.pc = "accession"
    /\ codec' = [codec EXCEPT !.pc = "uri",
                              !.uri = accession_to_sbol_uri(codec.accession, codec.prefix)]
    /\ UNCHANGED <<inventory, history, router, reconciler, importFile, collator>>

UriToAccession ==
    /\ codec.pc = "uri"
    /\ codec' = [codec EXCEPT !.pc = "done",
                              !.back = sbol_uri_to_accession(codec.uri, codec.prefix)]
    /\ UNCHANGED <<inventory, history, router, reconciler, importFile, collator>>

NextCodec == AccessionToUri \/ UriToAccession

SpecCodec == InitCodec /\ [][NextCodec]_vars

\* C6: converting an accession to a URI and back with the same prefix returns
\* the original accession, for all accessions and all prefixes.
C6_RoundTrip == codec.pc = "done" => codec.back = codec.accession

\* The accessions and prefixes on which the round trip does return the
\* accession: letters, digits and '.', no initial digit, prefix ending in '/'.
C6_RoundTripPlain ==
    (/\ codec.pc = "done"
     /\ EndsWithSlash(codec.prefix)
     /\ codec.accession[1] \notin DIGITS
     /\ \A i \in 1..Len(codec.accession) : codec.accession[i] \notin {"_", "-", " "})
    => codec.back = codec.accession

(***************************************************************************)
(* PackageInventory                                                        *)
(***************************************************************************)

\* A Python dict as a function; d[k] = v.
DictSet(d, k, v) == [x \in DOMAIN d \cup {k} |-> IF x = k THEN v ELSE d[x]]

EmptyDict == [x \in {} |-> None]

\* PackageInventory.__init__
NewInventory == [files |-> {}, locations |-> EmptyDict, aliases |-> EmptyDict]

\* The loop "for key in keys: ... self.aliases[key] = uri": every key of the
\* set is assigned the same uri, so the set's iteration order does not matter.
AliasLoop(aliases, keys, uri) ==
    [x \in DOMAIN aliases \cup keys |-> IF x \in keys THEN uri ELSE aliases[x]]

\* add as it would be without the line "self.locations[uri] = import_file".
InventoryAdd_NoLocation(inv, import_file, uri, als) ==
    [files     |-> inv.files \cup {import_file},
     locations |-> inv.locations,
     aliases   |-> AliasLoop(inv.aliases, als \cup {uri}, uri)]

\* PackageInventory.add(import_file, uri, *aliases)
InventoryAdd(inv, import_file, uri, als) ==
    [files     |-> inv.files \cup {import_file},
     locations |-> DictSet(inv.locations, uri, import_file),
     aliases   |-> AliasLoop(inv.aliases, als \cup {uri}, uri)]

(***************************************************************************)
(* Inventory specification: any sequence of PackageInventory.add calls     *)
(***************************************************************************)

\* Bounds of the inventory specification.
NumFiles == 2

MaxAliases == 1

MaxAdds == 3

\* The ImportFile instances handed to add.
FILES == 1..NumFiles

\* An accession of letters and digits.
J1 == <<"J", "1">>

igem_uri(a) == iGEM_SOURCE_PREFIX \o a

sbh_igem_uri(a) == SBH_BBA_PREFIX \o a

ncbi_uri(a) == NCBI_PREFIX \o a

local_uri(a) == LOCAL_PREFIX \o a

sbh_uri(a) == SBH_PREFIX \o <<".org/public/other", "/">> \o a

\* The URIs and aliases the add calls draw from.
INV_URIS == {igem_uri(J1), sbh_igem_uri(J1), ncbi_uri(J1)}

AliasSets == {s \in SUBSET INV_URIS : Cardinality(s) <= MaxAliases}

\* What the first add that registered a key stored for it (a history of the
\* calls, not a field of the program).
FirstWrite(d, keys, v) ==
    [x \in DOMAIN d \cup keys |-> IF x \in DOMAIN d THEN d[x] ELSE v]

InitInventory ==
    /\ inventory = NewInventory
    /\ history = [adds |-> 0, firstLocation |-> EmptyDict, firstAlias |-> EmptyDict]
    /\ codec = Idle /\ router = Idle /\ reconciler = Idle
    /\ importFile = Idle /\ collator = Idle

Add(import_file, uri, als) ==
    /\ history.adds < MaxAdds
    /\ inventory' = InventoryAdd(inventory, import_file, uri, als)
    /\ history' = [adds |-> history.adds + 1,
                   firstLocation |-> FirstWrite(history.firstLocation, {uri}, import_file),
                   firstAlias |-> FirstWrite(history.firstAlias, als \cup {uri}, uri)]
    /\ UNCHANGED <<codec, router, reconciler, importFile, collator>>

NextInventory ==
    \E import_file \in FILES, uri \in INV_URIS, als \in AliasSets :
        Add(import_file, uri, als)

SpecInventory == InitInventory /\ [][NextInventory]_vars

\* C4: PackageInventory.add is first-writer-wins: every alias key maps to the
\* canonical URI of the first add that registered it, and every URI of the
\* locations map keeps the Import File of the first add that registered it.
C4_FirstWriterWins ==
    /\ \A k \in DOMAIN inventory.aliases :
          inventory.aliases[k] = history.firstAlias[k]
    /\ \A u \in DOMAIN inventory.locations :
          inventory.locations[u] = history.firstLocation[u]

\* C5: every value of the alias map is a key of the locations map.
C5_AliasesClosed ==
    \A k \in DOMAIN inventory.aliases :
        inventory.aliases[k] \in DOMAIN inventory.locations

\* C5's case: an alias key that a later add has registered again, under
\* another canonical URI than the first one.
C5_Witness ==
    \E k \in DOMAIN inventory.aliases :
        /\ k # inventory.aliases[k]
        /\ history.firstAlias[k] # inventory.aliases[k]

(***************************************************************************)
(* The package directory and package_parts_inventory                       *)
(***************************************************************************)

GENBANK_CACHE_FILE == "GenBank_imports.gb"

IGEM_SBOL3_CACHE_FILE == "iGEM_SBOL3_imports.nt"

IGEM_FASTA_CACHE_FILE == "iGEM_raw_imports.fasta"

\* A cached file of a package: its basename, its type, the (name, id) pairs of
\* its FASTA or GenBank records (a FASTA record's name is its id), and the
\* identities of the Components of an SBOL3 file.
CacheFile(path, file_type, records, components) ==
    [path |-> path, file_type |-> file_type, records |-> records,
     components |-> components]

Rec(name, id) == [name |-> name, id |-> id]

\* The prefix package_parts_inventory gives a FASTA or GenBank file: the
\* source's prefix for the well-known cache file, the package stem otherwise.
ScanPrefix(f) ==
    IF f.file_type = "FASTA"
    THEN IF f.path = IGEM_FASTA_CACHE_FILE THEN iGEM_SOURCE_PREFIX ELSE LOCAL_PREFIX
    ELSE IF f.path = GENBANK_CACHE_FILE THEN NCBI_PREFIX ELSE LOCAL_PREFIX

\* The add calls package_parts_inventory makes for one file, in order.
ScanCalls(f) ==
    IF f.file_type = "FASTA"
    THEN [i \in 1..Len(f.records) |->
            [file |-> f.path,
             uri |-> accession_to_sbol_uri(f.records[i].id, ScanPrefix(f)),
             aliases |-> {}]]
    ELSE IF f.file_type = "GenBank"
    THEN [i \in 1..Len(f.records) |->
            [file |-> f.path,
             uri |-> accession_to_sbol_uri(f.records[i].name, ScanPrefix(f)),
             aliases |-> {accession_to_sbol_uri(f.records[i].id, ScanPrefix(f))}]]
    ELSE [i \in 1..Len(f.components) |->
            [file |-> f.path,
             uri |-> f.components[i],
             aliases |-> {remap_prefix(f.components[i])}]]

RECURSIVE AllScanCalls(_)
AllScanCalls(files) ==
    IF files = <<>> THEN <<>>
    ELSE ScanCalls(Head(files)) \o AllScanCalls(Tail(files))

RECURSIVE ApplyAdds(_, _)
ApplyAdds(inv, calls) ==
    IF calls = <<>> THEN inv
    ELSE ApplyAdds(InventoryAdd(inv, Head(calls).file, Head(calls).uri,
                                Head(calls).aliases),
                   Tail(calls))

\* package_parts_inventory(package), for the package's files in the order of
\* the scan: FASTA files sorted by name, then GenBank files, then SBOL3 files.
package_parts_inventory(files) == ApplyAdds(NewInventory, AllScanCalls(files))

(***************************************************************************)
(* The retrievers.  What the network answers is an input: for each URI one *)
(* of NetOutcomes, and for the batched GenBank fetch one of EfetchOutcomes.*)
(***************************************************************************)

\* The answers for one URI:
\*   "ok"          the structured pull succeeds (GenBank: the record exists)
\*   "nf_dna"      the pull answers not-found; the raw fetch returns DNA text
\*   "nf_not_dna"  the pull answers not-found; the raw fetch returns other text
\*   "nf_ioerror"  the pull answers not-found; the raw fetch fails in transport
\*   "other"       the pull raises an SBOLError with another error code
\*   "transport"   the pull fails in transport (no SBOLError is raised)
NetOutcomes == {"ok", "nf_dna", "nf_not_dna", "nf_ioerror", "other", "transport"}

\* Entrez.efetch returns, raises HTTPError, or raises URLError (a transport
\* failure that is no HTTPError).
EfetchOutcomes == {"ok", "HTTPError", "URLError"}

NotFound(o) == o \in {"nf_dna", "nf_not_dna", "nf_ioerror"}

\* The result of a retriever call.
Retrieval(retrieved_ids, raised, fallback, cache) ==
    [retrieved_ids |-> retrieved_ids, raised |-> raised, fallback |-> fallback,
     cache |-> cache]

\* [x for x in s if x in keep]
RECURSIVE Filter(_, _)
Filter(s, keep) ==
    IF s = <<>> THEN <<>>
    ELSE (IF Head(s) \in keep THEN <<Head(s)>> ELSE <<>>) \o Filter(Tail(s), keep)

Range(s) == {s[i] : i \in 1..Len(s)}

\* retrieve_genbank_accessions: one batched fetch of all the accessions; the
\* records that come back are appended to the GenBank cache and their
\* accessions turned back into URIs.  "except HTTPError" catches the HTTPError
\* and no other exception.
retrieve_genbank_accessions(ids, net, efetch) ==
    LET accessions == [i \in 1..Len(ids) |-> sbol_uri_to_accession(ids[i], NCBI_PREFIX)]
        found == {i \in 1..Len(ids) : net[ids[i]] = "ok"}
        retrieved == Filter([i \in 1..Len(ids) |-> i], found)
        records == [j \in 1..Len(retrieved) |-> accessions[retrieved[j]]]
    IN  IF efetch = "HTTPError" THEN Retrieval(<<>>, None, {}, <<>>)
        ELSE IF efetch = "URLError" THEN Retrieval(<<>>, "URLError", {}, <<>>)
        ELSE Retrieval([j \in 1..Len(records) |->
                            accession_to_sbol_uri(records[j], NCBI_PREFIX)],
                       None, {},
                       [j \in 1..Len(records) |->
                            [file |-> GENBANK_CACHE_FILE, record |-> records[j]]])

\* One pass of the loop of retrieve_igem_parts without the DNA check on the
\* payload of the raw fetch.
IgemStep_AnyPayload(acc, i, o) ==
    LET accession == sbol_uri_to_accession(i, iGEM_SOURCE_PREFIX)
    IN  CASE o = "ok" ->
               [acc EXCEPT !.retrieved_ids = Append(@, i),
                           !.cache = Append(@, [file |-> "iGEM_SBOL2_imports.xml",
                                                record |-> accession])]
          [] o \in {"nf_dna", "nf_not_dna"} ->
               [acc EXCEPT !.retrieved_ids = Append(@, i),
                           !.fallback = @ \cup {i},
                           !.cache = Append(@, [file |-> IGEM_FASTA_CACHE_FILE,
                                                record |-> accession])]
          [] o = "nf_ioerror" -> [acc EXCEPT !.fallback = @ \cup {i}]
          [] o = "other" -> [acc EXCEPT !.raised = "SBOLError"]
          [] o = "transport" -> [acc EXCEPT !.raised = "ConnectionError"]

\* One pass of the loop of retrieve_igem_parts, for the URI i whose fetches
\* are answered by o: the structured pull; on not-found the raw fetch, kept
\* when its payload is DNA and dropped when it is not or when the fetch
\* raises IOError; any other SBOLError is raised again, and an exception that
\* is no SBOLError is not caught at all.
IgemStep(acc, i, o) ==
    LET accession == sbol_uri_to_accession(i, iGEM_SOURCE_PREFIX)
    IN  CASE o = "ok" ->
               [acc EXCEPT !.retrieved_ids = Append(@, i),
                           !.cache = Append(@, [file |-> "iGEM_SBOL2_imports.xml",
                                                record |-> accession])]
          [] o = "nf_dna" ->
               [acc EXCEPT !.retrieved_ids = Append(@, i),
                           !.fallback = @ \cup {i},
                           !.cache = Append(@, [file |-> IGEM_FASTA_CACHE_FILE,
                                                record |-> accession])]
          [] o \in {"nf_not_dna", "nf_ioerror"} -> [acc EXCEPT !.fallback = @ \cup {i}]
          [] o = "other" -> [acc EXCEPT !.raised = "SBOLError"]
          [] o = "transport" -> [acc EXCEPT !.raised = "ConnectionError"]

\* The loop of retrieve_igem_parts over ids, from the state acc; an exception
\* leaves the loop and the function, so nothing is written.
RECURSIVE IgemLoop(_, _, _)
IgemLoop(ids, net, acc) ==
    IF ids = <<>> \/ acc.raised # None THEN acc
    ELSE IgemLoop(Tail(ids), net, IgemStep(acc, Head(ids), net[Head(ids)]))

\* What a retriever that raised has written: nothing.
NoWriteOnRaise(r) == IF r.raised # None THEN [r EXCEPT !.cache = <<>>] ELSE r

retrieve_igem_parts(ids, net) ==
    NoWriteOnRaise(IgemLoop(ids, net, Retrieval(<<>>, None, {}, <<>>)))

\* The loop of retrieve_synbiohub_parts: no fallback; not-found is skipped.
RECURSIVE SynBioHubLoop(_, _, _)
SynBioHubLoop(ids, net, acc) ==
    IF ids = <<>> \/ acc.raised # None THEN acc
    ELSE LET url == Head(ids)
             o == net[url]
             next ==
                CASE o = "ok" ->
                       [acc EXCEPT !.retrieved_ids = Append(@, url),
                                   !.cache = Append(@, [file |-> "iGEM_SBOL2_imports.xml",
                                                        record |-> url])]
                  [] NotFound(o) -> acc
                  [] o = "other" -> [acc EXCEPT !.raised = "SBOLError"]
                  [] o = "transport" -> [acc EXCEPT !.raised = "ConnectionError"]
         IN  SynBioHubLoop(Tail(ids), net, next)

retrieve_synbiohub_parts(ids, net) ==
    NoWriteOnRaise(SynBioHubLoop(ids, net, Retrieval(<<>>, None, {}, <<>>)))

(***************************************************************************)
(* The source router                                                       *)
(***************************************************************************)

\* source_list, in the order of the dict.
source_list ==
    << [prefix |-> NCBI_PREFIX,        retriever |-> "retrieve_genbank_accessions"],
       [prefix |-> SBH_IGEM_PREFIX,    retriever |-> "retrieve_igem_parts"],
       [prefix |-> iGEM_SOURCE_PREFIX, retriever |-> "retrieve_igem_parts"],
       [prefix |-> SBH_PREFIX,         retriever |-> "retrieve_synbiohub_parts"] >>

CallRetriever(retriever, matches, net, efetch) ==
    CASE retriever = "retrieve_genbank_accessions" ->
            retrieve_genbank_accessions(matches, net, efetch)
      [] retriever = "retrieve_igem_parts" -> retrieve_igem_parts(matches, net)
      [] retriever = "retrieve_synbiohub_parts" -> retrieve_synbiohub_parts(matches, net)

\* matches = [i for i in ids if i.startswith(prefix)]
Matches(ids, prefix) == Filter(ids, {i \in Range(ids) : StartsWith(i, prefix)})

\* The router without the line that takes the matches out of ids.
Unmatched_Keep(ids, prefix) == ids

\* ids = [i for i in ids if i not in matches]
Unmatched(ids, prefix) == Filter(ids, {i \in Range(ids) : ~StartsWith(i, prefix)})

\* The loop of retrieve_parts from entry k of source_list on; st holds ids,
\* collected, the calls made so far and the exception that ended the loop.
RECURSIVE RouterLoop(_, _, _, _)
RouterLoop(k, st, net, efetch) ==
    IF k > Len(source_list) \/ st.raised # None THEN st
    ELSE LET prefix == source_list[k].prefix
             matches == Matches(st.ids, prefix)
             result == CallRetriever(source_list[k].retriever, matches, net, efetch)
             next ==
                IF Len(matches) > 0
                THEN [ids |-> Unmatched(st.ids, prefix),
                      collected |-> IF result.raised = None
                                    THEN st.collected \o result.retrieved_ids
                                    ELSE st.collected,
                      calls |-> Append(st.calls,
                                       [prefix |-> prefix,
                                        retriever |-> source_list[k].retriever,
                                        matches |-> matches,
                                        result |-> result]),
                      raised |-> result.raised]
                ELSE [st EXCEPT !.ids = Unmatched(st.ids, prefix)]
         IN  RouterLoop(k + 1, next, net, efetch)

\* retrieve_parts(ids, package): the URIs collected, the retriever calls made
\* and the exception that left the function, if any.
retrieve_parts(ids, net, efetch) ==
    RouterLoop(1, [ids |-> ids, collected |-> <<>>, calls |-> <<>>, raised |-> None],
               net, efetch)

(***************************************************************************)
(* Retrieval specification: retrieve_parts on any list of missing URIs,    *)
(* under any answers of the network                                        *)
(***************************************************************************)

\* Bound of the retrieval specification: the longest list of missing URIs.
MaxIds == 3

\* A versioned accession as its URI carries it ('A_1' for 'A.1').
A_1 == <<"A", "_", "1">>

B_1 == <<"B", "_", "1">>

\* The missing URIs: two of NCBI, one of each iGEM form, one of another
\* SynBioHub collection, and one of the package's own namespace.
RETRIEVE_URIS ==
    {ncbi_uri(A_1), ncbi_uri(B_1), igem_uri(J1), sbh_igem_uri(J1), sbh_uri(J1),
     local_uri(J1)}

\* Lists of distinct URIs (import_parts passes a sorted set).
IdLists(uris, n) ==
    {l \in UNION {[1..m -> uris] : m \in 0..n} :
        \A i, j \in 1..Len(l) : i # j => l[i] # l[j]}

\* The answers that make a difference for a URI: a record of NCBI exists or
\* not; the raw fetch is made by the iGEM retriever only; a URI that no
\* retriever is bound to is never asked for.
OutcomesFor(u) ==
    IF StartsWith(u, NCBI_PREFIX) THEN {"ok", "nf_dna"}
    ELSE IF StartsWith(u, SBH_IGEM_PREFIX) \/ StartsWith(u, iGEM_SOURCE_PREFIX)
    THEN NetOutcomes
    ELSE IF StartsWith(u, SBH_PREFIX) THEN {"ok", "nf_dna", "other", "transport"}
    ELSE {"nf_dna"}

Nets(uris) == {net \in [uris -> NetOutcomes] : \A u \in uris : net[u] \in OutcomesFor(u)}

InitRetrieve ==
    /\ router \in [pc : {"called"}, ids : IdLists(RETRIEVE_URIS, MaxIds), net : {None},
                   efetch : {None}, collected : {<<>>}, calls : {<<>>}, raised : {None}]
    /\ inventory = Idle /\ history = Idle /\ codec = Idle /\ reconciler = Idle
    /\ importFile = Idle /\ collator = Idle

\* One call of retrieve_parts, to its return or to the exception leaving it.
RetrieveParts ==
    /\ router.pc = "called"
    /\ \E net \in Nets(Range(router.ids)), efetch \in EfetchOutcomes :
          LET r == retrieve_parts(router.ids, net, efetch)
          IN  router' = [pc |-> IF r.raised = None THEN "returned" ELSE "raised",
                         ids |-> router.ids, net |-> net, efetch |-> efetch,
                         collected |-> r.collected, calls |-> r.calls,
                         raised |-> r.raised]
    /\ UNCHANGED <<inventory, history, codec, reconciler, importFile, collator>>

NextRetrieve == RetrieveParts

SpecRetrieve == InitRetrieve /\ [][NextRetrieve]_vars

\* The first entry of the binding table whose prefix the URI starts with; 0
\* when there is none.
FirstPrefix(u) ==
    LET hits == {k \in DOMAIN source_list : StartsWith(u, source_list[k].prefix)}
    IN  IF hits = {} THEN 0 ELSE CHOOSE k \in hits : \A h \in hits : k <= h

CallIndex(c) == CHOOSE k \in DOMAIN source_list : source_list[k].prefix = c.prefix

\* C2: every retriever call is the one bound to its prefix and receives
\* exactly the URIs whose first matching prefix is that prefix; no URI is
\* passed to two calls; a URI matching no prefix is passed to no call and is
\* not in the result; and when retrieve_parts returns, every URI matching a
\* prefix has been passed to exactly one call.
C2_Routing ==
    router.pc \in {"returned", "raised"} =>
       /\ \A n \in 1..Len(router.calls) :
             LET c == router.calls[n]
             IN  /\ c.retriever = source_list[CallIndex(c)].retriever
                 /\ c.matches = Filter(router.ids,
                                       {u \in Range(router.ids) :
                                            FirstPrefix(u) = CallIndex(c)})
                 /\ c.matches # <<>>
       /\ \A n, m \in 1..Len(router.calls) :
             n # m => Range(router.calls[n].matches)
                          \cap Range(router.calls[m].matches) = {}
       /\ \A u \in Range(router.ids) :
             FirstPrefix(u) = 0 =>
                /\ \A n \in 1..Len(router.calls) : u \notin Range(router.calls[n].matches)
                /\ u \notin Range(router.collected)
       /\ router.pc = "returned" =>
             \A u \in Range(router.ids) :
                FirstPrefix(u) # 0 =>
                   Cardinality({n \in 1..Len(router.calls) :
                                   u \in Range(router.calls[n].matches)}) = 1

\* C2's case: a list with a URI of the iGEM mirror (which the generic
\* SynBioHub prefix matches too), a URI of another SynBioHub collection and a
\* URI that matches no prefix, routed by a call that returned.
C2_Witness ==
    /\ router.pc = "returned"
    /\ Len(router.calls) = 2
    /\ {sbh_igem_uri(J1), sbh_uri(J1), local_uri(J1)} \subseteq Range(router.ids)

\* C7: a transport failure during any fetch is caught and does not propagate
\* out of retrieve_parts.
C7_TransportCaught ==
    router.pc \in {"returned", "raised"} =>
        router.raised \notin {"URLError", "ConnectionError"}

\* The URIs of a call of the iGEM retriever that its loop reached: all of them
\* up to the first one whose pull raised.
Processed(c) ==
    {c.matches[i] : i \in {i \in 1..Len(c.matches) :
        \A j \in 1..(i - 1) : router.net[c.matches[j]] \notin {"other", "transport"}}}

\* C8: for each URI the iGEM retriever processes, the raw-sequence fallback is
\* attempted if and only if the structured pull answered not-found; an error
\* of the pull other than not-found is re-raised without the fallback; and
\* the list the retriever returns holds the URI if and only if the pull
\* succeeded or the fallback payload was DNA.
C8_IgemFallback ==
    router.pc \in {"returned", "raised"} =>
       \A n \in 1..Len(router.calls) :
          LET c == router.calls[n]
          IN  c.retriever = "retrieve_igem_parts" =>
                 /\ \A u \in Processed(c) :
                       /\ u \in c.result.fallback <=> NotFound(router.net[u])
                       /\ router.net[u] = "other" =>
                             c.result.raised = "SBOLError" /\ u \notin c.result.fallback
                 /\ \A u \in Range(c.matches) \ Processed(c) : u \notin c.result.fallback
                 /\ c.result.raised = None =>
                       \A u \in Range(c.matches) :
                          u \in Range(c.result.retrieved_ids)
                             <=> router.net[u] \in {"ok", "nf_dna"}

\* C8's case: the retriever returned after one fallback whose payload was DNA.
C8_Witness ==
    /\ router.pc = "returned"
    /\ \E n \in 1..Len(router.calls) :
          /\ router.calls[n].retriever = "retrieve_igem_parts"
          /\ \E u \in Range(router.calls[n].matches) :
                /\ router.net[u] = "nf_dna"
                /\ u \in Range(router.calls[n].result.retrieved_ids)

(***************************************************************************)
(* Packages: the cached files and the parts of the specification           *)
(***************************************************************************)

\* The cached files a package is made of, in the order of the scan (FASTA
\* sorted by name, then GenBank, then SBOL3):
\*   the iGEM raw cache with the record J1;
\*   the package's own FASTA file with the record A;
\*   the GenBank cache with the record named A of id A.1;
\*   two GenBank files of the package, the record named B of id A and the
\*   record named C of id B;
\*   the iGEM SBOL3 cache with the Component .../public/igem/BBa_J1;
\*   an SBOL3 file of the package with a Component of the identity that the
\*   FASTA record A is given.
CACHE_FILES ==
    << CacheFile(IGEM_FASTA_CACHE_FILE, "FASTA", <<Rec(J1, J1)>>, <<>>),
       CacheFile("parts.fasta", "FASTA", <<Rec(<<"A">>, <<"A">>)>>, <<>>),
       CacheFile(GENBANK_CACHE_FILE, "GenBank", <<Rec(<<"A">>, <<"A", ".", "1">>)>>, <<>>),
       CacheFile("more.gb", "GenBank", <<Rec(<<"B">>, <<"A">>)>>, <<>>),
       CacheFile("other.gb", "GenBank", <<Rec(<<"C">>, <<"B">>)>>, <<>>),
       CacheFile(IGEM_SBOL3_CACHE_FILE, "SBOL3", <<>>, <<sbh_igem_uri(J1)>>),
       CacheFile("parts.nt", "SBOL3", <<>>, <<local_uri(<<"A">>)>>) >>

\* Bound of the package specifications: the most cached files in a package.
MaxFiles == 3

\* The packages: the files of a package, in the order of the scan.
Packages ==
    {Filter(CACHE_FILES, fs) :
        fs \in {fs \in SUBSET Range(CACHE_FILES) : Cardinality(fs) <= MaxFiles}}

\* The identities the parts of a specification may have.
PART_IDS == {local_uri(<<"A">>), igem_uri(J1), ncbi_uri(A_1), sbh_uri(J1)}

\* Every URI of the model in the order of list.sort().
URI_ORDER ==
    << igem_uri(J1), local_uri(<<"A">>), local_uri(<<"B">>), local_uri(<<"C">>),
       local_uri(J1), sbh_igem_uri(J1), sbh_uri(J1), ncbi_uri(<<"A">>),
       ncbi_uri(A_1), ncbi_uri(B_1) >>

\* list(s) followed by list.sort()
SortedList(set) == Filter(URI_ORDER, set)

(***************************************************************************)
(* The reconciler: import_parts                                            *)
(***************************************************************************)

\* import_parts with the identities of the inventory's locations in the place
\* of the keys of its alias map.
MissingSequences_Locations(package_parts, inv) ==
    {u \in DOMAIN package_parts : ~package_parts[u]} \ DOMAIN inv.locations

\* missing_sequences = package_no_sequence_ids - inventory_part_ids_and_aliases,
\* for package_parts a map from each part's identity to "p.sequences is not empty".
MissingSequences(package_parts, inv) ==
    LET package_no_sequence_ids == {u \in DOMAIN package_parts : ~package_parts[u]}
        inventory_part_ids_and_aliases == DOMAIN inv.aliases
    IN  package_no_sequence_ids \ inventory_part_ids_and_aliases

\* inventory_only = set(inventory.locations.keys()) - {inventory.aliases[i] for i in both}
InventoryOnly(package_parts, inv) ==
    LET both == DOMAIN package_parts \cap DOMAIN inv.aliases
    IN  DOMAIN inv.locations \ {inv.aliases[i] : i \in both}

InitReconcile ==
    /\ reconciler \in [pc : {"called"},
                       package_parts : UNION {[ids -> BOOLEAN] : ids \in SUBSET PART_IDS},
                       files : Packages,
                       missing_sequences : {None}, inventory_only : {None},
                       retrieved : {None}, raised : {None}]
    /\ inventory = Idle /\ history = Idle /\ codec = Idle /\ router = Idle
    /\ importFile = Idle /\ collator = Idle

\* One call of import_parts: the scan, the comparison, and the retrieval of
\* the sorted missing list under any answers of the network.
ImportParts ==
    /\ reconciler.pc = "called"
    /\ LET inv == package_parts_inventory(reconciler.files)
           missing_sequences == MissingSequences(reconciler.package_parts, inv)
           download_list == SortedList(missing_sequences)
       IN  \E net \in Nets(missing_sequences), efetch \in EfetchOutcomes :
              LET r == IF missing_sequences = {}
                       THEN [collected |-> <<>>, raised |-> None]
                       ELSE retrieve_parts(download_list, net, efetch)
              IN  reconciler' =
                     [reconciler EXCEPT
                        !.pc = IF r.raised = None THEN "returned" ELSE "raised",
                        !.missing_sequences = missing_sequences,
                        !.inventory_only = InventoryOnly(reconciler.package_parts, inv),
                        !.retrieved = r.collected,
                        !.raised = r.raised]
    /\ UNCHANGED <<inventory, history, codec, router, importFile, collator>>

NextReconcile == ImportParts

SpecReconcile == InitReconcile /\ [][NextReconcile]_vars

\* The URIs the scan of the package registers, as a URI or as an alias.
Registered(files) ==
    UNION {{c.uri} \cup c.aliases : c \in Range(AllScanCalls(files))}

\* C3: the missing set holds exactly the identities of the required parts that
\* carry no sequence data and that the inventory registers neither as a URI
\* nor as an alias.
C3_MissingSet ==
    reconciler.pc \in {"returned", "raised"} =>
       /\ reconciler.missing_sequences \subseteq DOMAIN reconciler.package_parts
       /\ \A u \in DOMAIN reconciler.package_parts :
             u \in reconciler.missing_sequences
                <=> (/\ ~reconciler.package_parts[u]
                     /\ u \notin Registered(reconciler.files))

\* C3's case: required parts of which one has sequence data and is not in
\* the inventory, one has none and is registered as an alias only, and one
\* has none and is not registered, which is the missing set.
C3_Witness ==
    /\ reconciler.pc = "returned"
    /\ \E a, b, c \in DOMAIN reconciler.package_parts :
          /\ reconciler.package_parts[a] /\ a \notin Registered(reconciler.files)
          /\ ~reconciler.package_parts[b]
          /\ b \in Registered(reconciler.files)
          /\ b \notin {k.uri : k \in Range(AllScanCalls(reconciler.files))}
          /\ reconciler.missing_sequences = {c}

(***************************************************************************)
(* ImportFile                                                              *)
(***************************************************************************)

\* str.removesuffix('/')
RemoveSuffixSlash(s) == IF EndsWithSlash(s) THEN SubSeq(s, 1, Len(s) - 1) ELSE s

\* An object of a document: its identity, its content (named after the file
\* that holds it) and the identities it refers to.
Obj(identity, body, refs) == [identity |-> identity, body |-> body, refs |-> refs]

\* The namespace package_parts_inventory constructs the ImportFile with,
\* after __init__: the prefix without its trailing '/'; none for SBOL3.
Namespace(f) ==
    IF f.file_type = "SBOL3" THEN None ELSE RemoveSuffixSlash(ScanPrefix(f))

\* The objects a FASTA or GenBank record turns into: a Sequence and the
\* Component that refers to it.  For FASTA the identity is namespace + '/' +
\* string_to_display_id(r.id); for GenBank the conversion is taken to give
\* the identity that the scan registers as the record's URI.
RecordObjects(f, r) ==
    LET identity == Namespace(f) \o <<"/">> \o
                       string_to_display_id(IF f.file_type = "FASTA" THEN r.id ELSE r.name)
        seq == identity \o <<"_", "sequence">>
    IN  << Obj(seq, f.path, {}), Obj(identity, f.path, {seq}) >>

RECURSIVE AllRecordObjects(_, _)
AllRecordObjects(f, records) ==
    IF records = <<>> THEN <<>>
    ELSE RecordObjects(f, Head(records)) \o AllRecordObjects(f, Tail(records))

\* What get_sbol3_doc loads from the file: doc.objects, in order.
LoadDoc(f) ==
    IF f.file_type = "SBOL3"
    THEN [i \in 1..Len(f.components) |-> Obj(f.components[i], f.path, {})]
    ELSE AllRecordObjects(f, f.records)

\* self.doc: None after __init__, or a document.
NoDoc == [set |-> FALSE, objects |-> <<>>]

\* "if self.doc": None is false, and so is a document without objects.
Truthy(doc) == doc.set /\ doc.objects # <<>>

\* ImportFile.get_sbol3_doc on the instance self of the file f: self.doc is
\* returned when it is set; otherwise the file is loaded and the document is
\* returned.  No branch assigns self.doc.
GetSbol3Doc(self, f) ==
    IF Truthy(self.doc)
    THEN [self EXCEPT !.returned = self.doc.objects]
    ELSE [doc |-> self.doc, loads |-> self.loads + 1, returned |-> LoadDoc(f)]

\* Bound of the ImportFile specification: the most loads of one file.
MaxLoads == 2

\* ImportFile.__init__ for every file of a package: self.doc = None.
InitImportFile ==
    /\ \E files \in Packages :
          importFile = [files |-> files,
                        instance |-> [i \in 1..Len(files) |->
                                         [doc |-> NoDoc, loads |-> 0, returned |-> <<>>]]]
    /\ inventory = Idle /\ history = Idle /\ codec = Idle /\ router = Idle
    /\ reconciler = Idle /\ collator = Idle

\* A call of get_sbol3_doc on the instance of the i-th file.
CallGetSbol3Doc(i) ==
    /\ importFile.instance[i].loads < MaxLoads
    /\ importFile' = [importFile EXCEPT
                        !.instance[i] = GetSbol3Doc(@, importFile.files[i])]
    /\ UNCHANGED <<inventory, history, codec, router, reconciler, collator>>

NextImportFile == \E i \in 1..Len(importFile.files) : CallGetSbol3Doc(i)

SpecImportFile == InitImportFile /\ [][NextImportFile]_vars

\* C9: an ImportFile loads its file at most once: the first get_sbol3_doc
\* stores the document on the instance and later calls return the stored
\* document without reading the file again.
C9_LoadedOnce ==
    \A i \in 1..Len(importFile.files) :
        /\ importFile.instance[i].loads <= 1
        /\ importFile.instance[i].loads = 1 =>
              /\ importFile.instance[i].doc.set
              /\ importFile.instance[i].doc.objects = importFile.instance[i].returned

(***************************************************************************)
(* The collator: collate_package                                           *)
(***************************************************************************)

Triple(subj, pred, obj) == [s |-> subj, p |-> pred, o |-> obj]

\* doc.graph(): for every object a statement of its content (a literal, named
\* after the file the content comes from) and one statement per reference.
Graph(objects) ==
    UNION {{Triple(x.identity, "content", <<x.body>>)}
              \cup {Triple(x.identity, "refers", r) : r \in x.refs}
           : x \in Range(objects)}

Identities(objects) == {objects[i].identity : i \in 1..Len(objects)}

\* to_remove = [o for o in doc.objects if o.identity in inventory.aliases]
ToRemove(objects, aliases) ==
    Filter(objects, {x \in Range(objects) : x.identity \in DOMAIN aliases})

\* doc.objects after the removal of to_remove.
Kept(objects, aliases) ==
    Filter(objects, {x \in Range(objects) : x.identity \notin DOMAIN aliases})

\* "for o in import_doc.objects": an object whose identity the document has
\* already is skipped, any other is copied in.
RECURSIVE CopyObjects(_, _)
CopyObjects(objects, import_objects) ==
    IF import_objects = <<>> THEN objects
    ELSE CopyObjects(IF Head(import_objects).identity \in Identities(objects)
                     THEN objects
                     ELSE Append(objects, Head(import_objects)),
                     Tail(import_objects))

\* "for f in inventory.files", in the order the set gives its files; every
\* file is loaded through get_sbol3_doc on its instance.
RECURSIVE CopyFiles(_, _)
CopyFiles(objects, files) ==
    IF files = <<>> THEN objects
    ELSE CopyFiles(CopyObjects(objects,
                               GetSbol3Doc([doc |-> NoDoc, loads |-> 0, returned |-> <<>>],
                                           Head(files)).returned),
                   Tail(files))

\* rewriting_plan, as the list of its items in the order of the dict.
RewritingPlan(to_remove, aliases) ==
    LET changed == Filter(to_remove,
                          {x \in Range(to_remove) : aliases[x.identity] # x.identity})
    IN  [i \in 1..Len(changed) |->
            [old |-> changed[i].identity, new |-> aliases[changed[i].identity]]]

\* The pass over one item of the plan without "g.remove((s, p, o))".
RewriteOne_KeepOld(g, old, new) ==
    g \cup {Triple(t.s, t.p, new) : t \in {t \in g : t.o = old}}

\* One item of the plan: every statement whose object is old_identity is
\* replaced by the statement with new_identity as its object.
RewriteOne(g, old, new) ==
    (g \ {t \in g : t.o = old}) \cup {Triple(t.s, t.p, new) : t \in {t \in g : t.o = old}}

RECURSIVE Rewrite(_, _)
Rewrite(g, plan) ==
    IF plan = <<>> THEN g
    ELSE Rewrite(RewriteOne(g, Head(plan).old, Head(plan).new), Tail(plan))

\* collate_package for the specification document objects, the package's
\* files (in the order of the scan) and the order file_order in which
\* inventory.files is iterated.  The output is the sorted lines of the graph,
\* which is the set of its statements.
collate_package(objects, files, file_order) ==
    LET inv == package_parts_inventory(files)
        to_remove == ToRemove(objects, inv.aliases)
        merged == CopyFiles(Kept(objects, inv.aliases), file_order)
        g == Graph(merged)
    IN  [aliases |-> inv.aliases,
         removed |-> [i \in 1..Len(to_remove) |-> to_remove[i].identity],
         graph |-> g,
         output |-> Rewrite(g, RewritingPlan(to_remove, inv.aliases))]

\* Bounds of the collation specification: the most parts in the specification
\* document, and the number of runs over the same inputs.
MaxParts == 2

MaxRuns == 2

\* The identities of the parts of the specification document.
SPEC_IDS == {local_uri(<<"A">>), local_uri(<<"B">>), igem_uri(J1), ncbi_uri(A_1)}

BASIC_PARTS_COLLECTION == local_uri(<<"BasicParts">>)

\* A specification document: the BasicParts collection, whose members are the
\* parts, and one object per part, in any order.
SpecDocs ==
    {<<Obj(BASIC_PARTS_COLLECTION, "spec", Range(ids))>>
        \o [i \in 1..Len(ids) |-> Obj(ids[i], "spec", {})]
     : ids \in IdLists(SPEC_IDS, MaxParts)}

\* The orders in which a set of ImportFile instances can be iterated.
Orders(files) ==
    {order \in [1..Len(files) -> Range(files)] :
        \A i, j \in 1..Len(files) : i # j => order[i] # order[j]}

InitCollate ==
    /\ collator \in [objects : SpecDocs, files : Packages, outputs : {<<>>},
                     last : {None}]
    /\ inventory = Idle /\ history = Idle /\ codec = Idle /\ router = Idle
    /\ reconciler = Idle /\ importFile = Idle

\* One run of collate_package over the package; the inputs are not changed by
\* it (the output goes to another file of the export directory).
CollatePackage ==
    /\ Len(collator.outputs) < MaxRuns
    /\ \E file_order \in Orders(collator.files) :
          LET r == collate_package(collator.objects, collator.files, file_order)
          IN  collator' = [collator EXCEPT !.outputs = Append(@, r.output),
                                           !.last = r]
    /\ UNCHANGED <<inventory, history, codec, router, reconciler, importFile>>

NextCollate == CollatePackage

SpecCollate == InitCollate /\ [][NextCollate]_vars

\* The identities removed as placeholders in the last run.
Removed == Range(collator.last.removed)

\* The removed placeholders whose alias is another identity: the keys of the
\* rewriting plan.
Rewritten == {x \in Removed : collator.last.aliases[x] # x}

\* C1: after collate_package, no statement of the output graph has the
\* identity of a removed placeholder as its object term: every such reference
\* has been replaced by the statement with the placeholder's alias as object.
C1_NoRemovedObject ==
    Len(collator.outputs) > 0 =>
       \A x \in Removed :
          /\ \A t \in collator.last.output : t.o # x
          /\ \A t \in collator.last.graph :
                t.o = x => Triple(t.s, t.p, collator.last.aliases[x]) \in collator.last.output

\* C1, amended: the same for every removed placeholder whose alias differs
\* from its own identity and whose identity is not the alias of another
\* removed placeholder; the replacing statement has the placeholder's alias
\* as object when that alias is not itself a placeholder that is rewritten.
C1_NoRewrittenObject ==
    Len(collator.outputs) > 0 =>
       \A x \in Rewritten :
          x \notin {collator.last.aliases[y] : y \in Rewritten} =>
             /\ \A t \in collator.last.output : t.o # x
             /\ collator.last.aliases[x] \notin Rewritten =>
                   \A t \in collator.last.graph :
                      t.o = x => Triple(t.s, t.p, collator.last.aliases[x])
                                    \in collator.last.output

\* C1's case: the collection refers to a placeholder that was removed and
\* whose alias is another identity.
C1_Witness ==
    /\ Len(collator.outputs) > 0
    /\ \E x \in Rewritten :
          /\ x \notin {collator.last.aliases[y] : y \in Rewritten}
          /\ collator.last.aliases[x] \notin Rewritten
          /\ \E t \in collator.last.graph : t.o = x

\* C10: two runs of collate_package over the same unchanged inputs produce
\* the same output, whatever the order in which the inventory's files are
\* iterated.
C10_Deterministic ==
    \A i, j \in 1..Len(collator.outputs) : collator.outputs[i] = collator.outputs[j]

(***************************************************************************)
(* Convergence specification: runs of import_parts on the same package,    *)
(* each one scanning the cache the runs before it have written             *)
(***************************************************************************)

IGEM_SBOL2_CACHE_FILE == "iGEM_SBOL2_imports.xml"

\* The names of the package's files in the order of the scan; the SBOL2
\* cache, which no loop of the scan globs, comes last.
SCAN_ORDER ==
    << IGEM_FASTA_CACHE_FILE, "parts.fasta", GENBANK_CACHE_FILE, "more.gb", "other.gb",
       IGEM_SBOL3_CACHE_FILE, "parts.nt", IGEM_SBOL2_CACHE_FILE >>

\* The files package_parts_inventory reads: FASTA, GenBank and SBOL3.  The
\* loop over the SBOL2 files is commented out.
Scannable(files) ==
    Filter(files, {f \in Range(files) : f.file_type \in {"FASTA", "GenBank", "SBOL3"}})

\* The type of a cache file a retriever writes.
CacheFileType(path) ==
    IF path = GENBANK_CACHE_FILE THEN "GenBank"
    ELSE IF path = IGEM_FASTA_CACHE_FILE THEN "FASTA"
    ELSE "SBOL2"

\* The LOCUS name of a record of NCBI: its accession without the version.
LocusName(accession) ==
    IF Len(accession) > 2 /\ accession[Len(accession) - 1] = "."
    THEN SubSeq(accession, 1, Len(accession) - 2)
    ELSE accession

\* The record a write leaves in its file: out.write(r.format('gb')) keeps the
\* record's name and id; '> {accession}' makes a FASTA record of that id; a
\* pulled object is kept under what it was pulled as.
WrittenRecord(w) ==
    IF w.file = GENBANK_CACHE_FILE THEN Rec(LocusName(w.record), w.record)
    ELSE Rec(w.record, w.record)

InScanOrder(fs) ==
    LET present == Filter(SCAN_ORDER, {f.path : f \in fs})
    IN  [i \in 1..Len(present) |-> CHOOSE f \in fs : f.path = present[i]]

\* One record appended to its cache file, which is created when missing.
WriteRecord(files, w) ==
    IF \E i \in 1..Len(files) : files[i].path = w.file
    THEN [i \in 1..Len(files) |->
            IF files[i].path = w.file
            THEN [files[i] EXCEPT !.records = Append(@, WrittenRecord(w))]
            ELSE files[i]]
    ELSE InScanOrder(Range(files)
                       \cup {CacheFile(w.file, CacheFileType(w.file),
                                       <<WrittenRecord(w)>>, <<>>)})

RECURSIVE WriteRecords(_, _)
WriteRecords(files, cache) ==
    IF cache = <<>> THEN files
    ELSE WriteRecords(WriteRecord(files, Head(cache)), Tail(cache))

\* Everything the retriever calls of one retrieve_parts have written, in order.
RECURSIVE CacheWrites(_)
CacheWrites(calls) ==
    IF calls = <<>> THEN <<>>
    ELSE Head(calls).result.cache \o CacheWrites(Tail(calls))

\* import_parts on the package: the scan, the missing set, the retrieval of
\* the sorted missing list, and the package's files after the retrievers'
\* writes (a retriever that raised has written nothing; those before it have).
import_parts(package_parts, files, net, efetch) ==
    LET inv == package_parts_inventory(Scannable(files))
        missing_sequences == MissingSequences(package_parts, inv)
        r == IF missing_sequences = {}
             THEN [collected |-> <<>>, raised |-> None, calls |-> <<>>]
             ELSE retrieve_parts(SortedList(missing_sequences), net, efetch)
    IN  [missing_sequences |-> missing_sequences,
         inventory_only |-> InventoryOnly(package_parts, inv),
         retrieved |-> r.collected,
         raised |-> r.raised,
         files |-> WriteRecords(files, CacheWrites(r.calls))]

\* Bounds of the convergence specification: the cached files the package
\* starts with, and the runs of import_parts.
MaxCachedAtStart == 1

MaxImportRuns == 2

InitConverge ==
    /\ reconciler \in [pc : {"called"},
                       package_parts : UNION {[ids -> BOOLEAN] : ids \in SUBSET PART_IDS},
                       files : {fs \in Packages : Len(fs) <= MaxCachedAtStart},
                       missing_sequences : {None}, inventory_only : {None},
                       retrieved : {<<>>}, raised : {None}]
    /\ history = [runs |-> 0, earlier |-> {}]
    /\ inventory = Idle /\ codec = Idle /\ router = Idle
    /\ importFile = Idle /\ collator = Idle

\* One run of import_parts on the package as the runs before have left it.
\* history.earlier collects the URIs that the runs before the last one
\* returned as retrieved.
RunImportParts ==
    /\ history.runs < MaxImportRuns
    /\ \E net \in Nets(MissingSequences(
                          reconciler.package_parts,
                          package_parts_inventory(Scannable(reconciler.files)))),
          efetch \in EfetchOutcomes :
          LET r == import_parts(reconciler.package_parts, reconciler.files, net, efetch)
          IN  reconciler' =
                 [reconciler EXCEPT
                    !.pc = IF r.raised = None THEN "returned" ELSE "raised",
                    !.files = r.files,
                    !.missing_sequences = r.missing_sequences,
                    !.inventory_only = r.inventory_only,
                    !.retrieved = IF r.raised = None THEN r.retrieved ELSE <<>>,
                    !.raised = r.raised]
    /\ history' = [runs |-> history.runs + 1,
                   earlier |-> history.earlier \cup Range(reconciler.retrieved)]
    /\ UNCHANGED <<inventory, codec, router, importFile, collator>>

NextConverge == RunImportParts

SpecConverge == InitConverge /\ [][NextConverge]_vars

\* C11: every URI that a run of import_parts returned as retrieved is a key
\* of the alias map of the next scan of the package, and is not in the
\* missing set of a later run.
C11_Converges ==
    /\ \A u \in Range(reconciler.retrieved) \cup history.earlier :
          u \in DOMAIN package_parts_inventory(Scannable(reconciler.files)).aliases
    /\ history.runs >= 2 =>
          \A u \in history.earlier : u \notin reconciler.missing_sequences

\* The same for the URIs that were not written to the SBOL2 cache: those the
\* GenBank retriever and the raw-sequence fallback of the iGEM retriever got.
C11_ConvergesUnlessSbol2 ==
    LET sbol2 == {f \in Range(reconciler.files) : f.file_type = "SBOL2"}
        pulled == UNION {UNION {{igem_uri(f.records[i].id), f.records[i].id}
                                   : i \in 1..Len(f.records)}
                         : f \in sbol2}
    IN  /\ \A u \in (Range(reconciler.retrieved) \cup history.earlier) \ pulled :
              u \in DOMAIN package_parts_inventory(Scannable(reconciler.files)).aliases
        /\ history.runs >= 2 =>
              \A u \in history.earlier \ pulled : u \notin reconciler.missing_sequences

====
